---------------------------- MODULE Spec2Model ----------------------------
(***************************************************************************)
(* Model of two algorithms of spyderlib/widgets/sourcecode/base.py:        *)
(*                                                                         *)
(*   - TextEditBaseWidget.get_selection_as_executable_code ("reindent"),   *)
(*     lines 435-505;                                                      *)
(*   - ConsoleBaseWidget.append_text_to_shell ("decode" is its non-error,  *)
(*     non-prompt branch) with QtANSIEscapeCodeHandler, lines 952-1203.    *)
(*                                                                         *)
(* A text is a sequence of characters.  A Python identifier that the code  *)
(* only ever tests as a whole ("if", "def", ...) is written as one         *)
(* element of the sequence; every other element is a single character.     *)
(***************************************************************************)
EXTENDS Integers, Sequences, FiniteSets, TLC

VARIABLES
    \* ---- get_selection_as_executable_code ----
    rpc,              \* position in the method
    text,             \* the selected text (line 443, padded at line 451)
    original_indent,  \* _indent(self.get_text_line(line_from)) (line 450)
    lines,            \* the list of lines (lines 447, 459, 468, 474, 487)
    min_indent,       \* line 457
    n,                \* index of the scan loop (line 483), 0-based
    maybe,            \* line 481
    nextexcept,       \* line 482
    result,           \* the returned string (line 505)
    input,            \* the text the first call was made on
    outs,             \* the results of the earlier calls, each made on the
                      \* result of the one before
    \* ---- ConsoleBaseWidget and its QtANSIEscapeCodeHandler ----
    cpc,                    \* "idle", "called" (append_text_to_shell entered)
                            \* or "returned"
    stext, error, prompt,   \* the arguments of append_text_to_shell
    ansi_handler,           \* self.ansi_handler: the attributes of the handler
    light_background,       \* self.light_background
    default_style_format,   \* self.default_style.format
    error_style_format,     \* self.error_style.format
    traceback_link_style_format,  \* self.traceback_link_style.format
    prompt_style_format,    \* self.prompt_style.format
    inserted,               \* the cursor.insertText calls of the call, in order
    cleared,                \* self.clear() was called (line 1153)
    raised                  \* the exception the call ended with, or "none"

rvars == <<rpc, text, original_indent, lines, min_indent, n, maybe,
           nextexcept, result, input, outs>>

cvars == <<cpc, stext, error, prompt, ansi_handler, light_background,
           default_style_format, error_style_format,
           traceback_link_style_format, prompt_style_format, inserted,
           cleared, raised>>

vars == <<rvars, cvars>>

----------------------------------------------------------------------------
(* Bounds of the model *)

MaxLines == 3

\* The most pieces (a literal character, an escape sequence, a form feed)
\* in one text given to append_text_to_shell
MaxPieces == 3

\* The indentations of the model: column zero and one level
Indents == 0..1

----------------------------------------------------------------------------
(* Python string primitives, on sequences of characters *)

SP == " "
LS == "\n"

\* str.isspace for the characters of the model
IsSpace(c) == c \in {SP, LS}

RECURSIVE lstrip(_)
lstrip(s) ==
    IF s # <<>> /\ IsSpace(Head(s)) THEN lstrip(Tail(s)) ELSE s

RECURSIVE rstrip(_)
rstrip(s) ==
    IF s # <<>> /\ IsSpace(s[Len(s)]) THEN rstrip(SubSeq(s, 1, Len(s) - 1))
    ELSE s

strip(s) == rstrip(lstrip(s))

\* s[k:] for k >= 0
SliceFrom(s, k) == SubSeq(s, k + 1, Len(s))

\* " " * k (the empty string when k <= 0)
Spaces(k) == [i \in 1..(IF k > 0 THEN k ELSE 0) |-> SP]

\* text.split(ls) for a one-character separator
RECURSIVE split(_, _)
split(s, sep) ==
    IF \E i \in 1..Len(s) : s[i] = sep
    THEN LET i == CHOOSE j \in 1..Len(s) :
                      s[j] = sep /\ \A k \in 1..(j - 1) : s[k] # sep
         IN  <<SubSeq(s, 1, i - 1)>> \o split(SliceFrom(s, i), sep)
    ELSE <<s>>

\* ls.join(lines)
RECURSIVE join(_, _)
join(sep, ls) ==
    IF ls = <<>> THEN <<>>
    ELSE IF Len(ls) = 1 THEN ls[1]
    ELSE ls[1] \o <<sep>> \o join(sep, Tail(ls))

\* _indent = lambda line: len(line)-len(line.lstrip())
_indent(line) == Len(line) - Len(lstrip(line))

\* The identifiers of the model: each stands for the characters of its name.
Identifiers == {"def", "for", "while", "with", "class", "if", "elif", "else",
                "try", "except", "finally", "x"}

\* varname.match(line).group() with varname = re.compile('[a-zA-Z0-9_]*'):
\* the longest prefix of identifier characters
RECURSIVE varname_match(_)
varname_match(line) ==
    IF line # <<>> /\ Head(line) \in Identifiers
    THEN <<Head(line)>> \o varname_match(Tail(line))
    ELSE <<>>

----------------------------------------------------------------------------
(* get_selection_as_executable_code, lines 435-505 *)

\* lines 457-466: the loop from the bottom line to the top line.
\* st = [lines, current_indent, min_indent], i the 1-based index.
RECURSIVE CommonIndentLoop(_, _)
CommonIndentLoop(st, i) ==
    IF i = 0 THEN st
    ELSE LET line == st.lines[i]
         IN  IF strip(line) # <<>>
             THEN CommonIndentLoop(
                      [st EXCEPT !.current_indent = _indent(line),
                                 !.min_indent =
                                     IF _indent(line) < st.min_indent
                                     THEN _indent(line) ELSE st.min_indent],
                      i - 1)
             ELSE CommonIndentLoop(
                      [st EXCEPT !.lines[i] = Spaces(st.current_indent)],
                      i - 1)

NoIndent == 999

\* The texts a selection can hold: up to MaxLines lines, each an indentation
\* of Indents spaces followed by nothing, a comment sign or a word.
Bodies == {<<>>, <<"#">>, <<"def">>, <<"if">>, <<"else">>, <<"try">>,
           <<"except">>, <<"x">>}

SelLines == {Spaces(k) \o b : k \in Indents, b \in Bodies}

\* Selections of a block with a blank line between its indented lines:
\* "def\n x\n\n x\n", and the same after an if and before its else
BlockSelections ==
    {<<"def", LS, SP, "x", LS, LS, SP, "x", LS>>,
     <<"if", LS, SP, "x", LS, LS, SP, "x", LS, "else">>}

Selections ==
    UNION {{join(LS, ls) : ls \in [1..k -> SelLines]} : k \in 1..MaxLines}
        \cup BlockSelections

RInit ==
    /\ rpc = "idle"
    /\ text = <<>>
    /\ original_indent = 0
    /\ lines = <<>>
    /\ min_indent = NoIndent
    /\ n = 0
    /\ maybe = FALSE
    /\ nextexcept = {}
    /\ result = <<>>
    /\ input = <<>>
    /\ outs = <<>>

Select_NoEmptyGuard(t, oi) ==
    /\ rpc = "idle"
    /\ text' = t
    /\ input' = t
    /\ original_indent' = oi
    /\ rpc' = "fix"
    /\ UNCHANGED <<lines, min_indent, n, maybe, nextexcept, result, outs>>
    /\ UNCHANGED cvars

\* lines 438-445: the call, on a selection t whose first line has
\* indentation oi in the buffer
Select(t, oi) ==
    /\ rpc = "idle"
    /\ text' = t
    /\ input' = t
    /\ original_indent' = oi
    /\ rpc' = IF t = <<>> THEN "none" ELSE "fix"
    /\ UNCHANGED <<lines, min_indent, n, maybe, nextexcept, result, outs>>
    /\ UNCHANGED cvars

FixIndent_AlwaysPad ==
    /\ rpc = "fix"
    /\ text' = Spaces(original_indent - _indent(split(text, LS)[1])) \o text
    /\ lines' = split(text, LS)
    /\ rpc' = "indent"
    /\ UNCHANGED <<original_indent, min_indent, n, maybe, nextexcept, result,
                   input, outs>>
    /\ UNCHANGED cvars

\* lines 447-451
FixIndent ==
    /\ rpc = "fix"
    /\ LET ls0 == split(text, LS)
       IN  text' = IF Len(ls0) > 1
                   THEN Spaces(original_indent - _indent(ls0[1])) \o text
                   ELSE text
    /\ lines' = split(text, LS)
    /\ rpc' = "indent"
    /\ UNCHANGED <<original_indent, min_indent, n, maybe, nextexcept, result,
                   input, outs>>
    /\ UNCHANGED cvars

StripCommonIndent_BlankLowers(t) ==
    LET ls0 == split(t, LS)
        st  == CommonIndentLoop(
                   [lines |-> ls0, current_indent |-> 0,
                    min_indent |-> NoIndent], Len(ls0))
        m   == CHOOSE k \in 0..NoIndent :
                   /\ \A i \in 1..Len(ls0) : _indent(ls0[i]) >= k
                   /\ \E i \in 1..Len(ls0) : _indent(ls0[i]) = k
    IN  [min_indent |-> m,
         lines |-> [i \in 1..Len(st.lines) |-> SliceFrom(st.lines[i], m)]]

StripCommonIndent_BlankToEmpty(t) ==
    LET ls0 == split(t, LS)
        st  == CommonIndentLoop(
                   [lines |-> ls0, current_indent |-> 0,
                    min_indent |-> NoIndent], Len(ls0))
    IN  [min_indent |-> st.min_indent,
         lines |-> [i \in 1..Len(ls0) |->
                        IF strip(ls0[i]) = <<>> THEN <<>>
                        ELSE SliceFrom(st.lines[i], st.min_indent)]]

\* lines 457-468 on the (padded) text t: the lines with the common
\* indentation removed, and min_indent
StripCommonIndent(t) ==
    LET ls0 == split(t, LS)
        st  == CommonIndentLoop(
                   [lines |-> ls0, current_indent |-> 0,
                    min_indent |-> NoIndent], Len(ls0))
    IN  [min_indent |-> st.min_indent,
         lines |-> IF st.min_indent # 0
                   THEN [i \in 1..Len(st.lines) |->
                             SliceFrom(st.lines[i], st.min_indent)]
                   ELSE st.lines]

\* lines 453-468
CommonIndent ==
    /\ rpc = "indent"
    /\ min_indent' = StripCommonIndent(text).min_indent
    /\ lines' = StripCommonIndent(text).lines
    /\ rpc' = "drop"
    /\ UNCHANGED <<text, original_indent, n, maybe, nextexcept, result,
                   input, outs>>
    /\ UNCHANGED cvars

IsLeadingJunk_BlankOnly(first_line) == first_line = <<>>

IsLeadingJunk_OrWord(first_line) ==
    first_line = <<>> \/ first_line[1] \in {"#", "x"}

\* line 473: the condition of the while loop
IsLeadingJunk(first_line) == first_line = <<>> \/ first_line[1] = "#"

\* lines 472-475: one test of the while loop.  lines[0] of an empty list
\* raises IndexError.
DropLeading ==
    /\ rpc = "drop"
    /\ LET first_line == lstrip(lines[1])
       IN  IF IsLeadingJunk(first_line)
           THEN /\ lines' = Tail(lines)
                /\ rpc' = IF Tail(lines) = <<>> THEN "IndexError" ELSE "drop"
                /\ UNCHANGED <<n, maybe, nextexcept>>
           ELSE /\ rpc' = "scan"
                /\ n' = 0
                /\ maybe' = FALSE
                /\ nextexcept' = {}
                /\ UNCHANGED lines
    /\ UNCHANGED <<text, original_indent, min_indent, result, input, outs>>
    /\ UNCHANGED cvars

BlockWords == {<<"def">>, <<"for">>, <<"while">>, <<"with">>, <<"class">>}

Terminates_AnyIndent(line, pending, allowed) ==
    pending /\ varname_match(line) \notin allowed

Terminates_IgnoresAllowed(line, pending, allowed) ==
    _indent(line) = 0 /\ pending

\* lines 484-486: the line ends the pending block
Terminates(line, pending, allowed) ==
    _indent(line) = 0 /\ pending /\ varname_match(line) \notin allowed

AddSeparator_SameLine(ls, k) ==
    [ls EXCEPT ![k + 1] = @ \o <<LS>>]

\* line 487, lines[n-1] += ls with n = k (lines[-1] is the last line)
AddSeparator(ls, k) ==
    [ls EXCEPT ![IF k = 0 THEN Len(ls) ELSE k] = @ \o <<LS>>]

FinalLines_Never(ls, pending) == ls

FinalLines_EmptyLine(ls, pending) ==
    IF ~pending THEN ls
    ELSE IF strip(ls[Len(ls)]) = <<>>
    THEN [ls EXCEPT ![Len(ls)] = @ \o <<LS>>]
    ELSE Append(ls, <<>>)

\* lines 499-503
FinalLines(ls, pending) ==
    IF ~pending THEN ls
    ELSE IF strip(ls[Len(ls)]) = <<>>
    THEN [ls EXCEPT ![Len(ls)] = @ \o <<LS>>]
    ELSE Append(ls, <<LS>>)

\* lines 483-498: one iteration of the for loop, on lines[n] (0-based)
Scan ==
    /\ rpc = "scan"
    /\ n < Len(lines)
    /\ LET line == lines[n + 1]
           word == varname_match(line)
           term == Terminates(line, maybe, nextexcept)
       IN  /\ lines' = IF term THEN AddSeparator(lines, n) ELSE lines
           /\ IF _indent(line) # 0 \/ word = <<>>
              THEN /\ maybe' = (IF term THEN FALSE ELSE maybe)
                   /\ UNCHANGED nextexcept
              ELSE IF word \in BlockWords
              THEN /\ maybe' = TRUE
                   /\ nextexcept' = {}
              ELSE IF word = <<"if">>
              THEN /\ maybe' = TRUE
                   /\ nextexcept' = {<<"elif">>, <<"else">>}
              ELSE IF word = <<"try">>
              THEN /\ maybe' = TRUE
                   /\ nextexcept' = {<<"except">>, <<"finally">>}
              ELSE /\ maybe' = (IF term THEN FALSE ELSE maybe)
                   /\ UNCHANGED nextexcept
    /\ n' = n + 1
    /\ UNCHANGED <<rpc, text, original_indent, min_indent, result, input,
                   outs>>
    /\ UNCHANGED cvars

\* lines 499-505
Finish ==
    /\ rpc = "scan"
    /\ n = Len(lines)
    /\ lines' = FinalLines(lines, maybe)
    /\ result' = join(LS, FinalLines(lines, maybe))
    /\ rpc' = "done"
    /\ UNCHANGED <<text, original_indent, min_indent, n, maybe, nextexcept,
                   input, outs>>
    /\ UNCHANGED cvars

\* reindent(reindent(x)): the method called again, with original indent 0,
\* on the text that a call with original indent 0 returned
Again ==
    /\ rpc = "done"
    /\ original_indent = 0
    /\ Len(outs) < 2
    /\ outs' = Append(outs, result)
    /\ text' = result
    /\ original_indent' = 0
    /\ rpc' = IF result = <<>> THEN "none" ELSE "fix"
    /\ lines' = <<>>
    /\ min_indent' = NoIndent
    /\ n' = 0
    /\ maybe' = FALSE
    /\ nextexcept' = {}
    /\ result' = <<>>
    /\ UNCHANGED input
    /\ UNCHANGED cvars

RNext ==
    \/ /\ rpc = "idle"
       /\ \E t \in Selections, oi \in Indents : Select(t, oi)
    \/ FixIndent
    \/ CommonIndent
    \/ DropLeading
    \/ Scan
    \/ Finish
    \/ Again

----------------------------------------------------------------------------
(* Values of the console widget *)

\* Python's None and a value that is not None
None == <<>>
Some(x) == <<x>>

\* Control characters, written by name
ESC == "ESC"    \* \x1b
SOH == "SOH"    \* \x01
STX == "STX"    \* \x02
FF  == "FF"     \* chr(12)

Digits == {"0", "1", "2", "3", "4", "5", "6", "7", "8", "9"}

DigitValue(c) ==
    CASE c = "0" -> 0 [] c = "1" -> 1 [] c = "2" -> 2 [] c = "3" -> 3
      [] c = "4" -> 4 [] c = "5" -> 5 [] c = "6" -> 6 [] c = "7" -> 7
      [] c = "8" -> 8 [] c = "9" -> 9

\* int(_c) raises ValueError unless _c is a number: for the characters of the
\* model, a non-empty string of digits
IsInt(p) == p # <<>> /\ \A i \in 1..Len(p) : p[i] \in Digits

RECURSIVE int(_)
int(p) ==
    IF p = <<>> THEN 0
    ELSE 10 * int(SubSeq(p, 1, Len(p) - 1)) + DigitValue(p[Len(p)])

\* QColor values: <<"hsv", hue, saturation, value>> for QColor(rgb), and
\* <<"ansi", index, intensity, 0>> for QColor(ANSI_COLORS[index][intensity])
QColor_000000 == <<"hsv", -1, 0, 0>>
QColor_FFFFFF == <<"hsv", -1, 0, 255>>
QColor_FF0000 == <<"hsv", 0, 255, 255>>
QColor_0000FF == <<"hsv", 240, 255, 255>>
QColor_00AA00 == <<"hsv", 120, 255, 170>>

\* inverse_color, lines 1018-1019
inverse_color(color) == <<"hsv", color[2], color[3], 255 - color[4]>>

\* The ConsoleFontStyle objects of ConsoleBaseWidget.__init__, lines 1071-1082
default_style ==
    [foregroundcolor |-> QColor_000000, backgroundcolor |-> QColor_FFFFFF,
     bold |-> FALSE, italic |-> FALSE, underline |-> FALSE]
error_style ==
    [foregroundcolor |-> QColor_FF0000, backgroundcolor |-> QColor_FFFFFF,
     bold |-> FALSE, italic |-> FALSE, underline |-> FALSE]
traceback_link_style ==
    [foregroundcolor |-> QColor_0000FF, backgroundcolor |-> QColor_FFFFFF,
     bold |-> TRUE, italic |-> FALSE, underline |-> TRUE]
prompt_style ==
    [foregroundcolor |-> QColor_00AA00, backgroundcolor |-> QColor_FFFFFF,
     bold |-> TRUE, italic |-> FALSE, underline |-> FALSE]

\* ConsoleFontStyle.apply_style, lines 1031-1046: the QTextCharFormat made
apply_style(style, font, light, is_default) ==
    [font |-> font,
     foreground |-> IF ~light /\ is_default
                    THEN inverse_color(style.foregroundcolor)
                    ELSE style.foregroundcolor,
     background |-> IF ~light THEN inverse_color(style.backgroundcolor)
                    ELSE style.backgroundcolor,
     bold |-> style.bold,
     italic |-> style.italic,
     underline |-> style.underline]

\* The fonts given to set_pythonshell_font; "QFont()" is the font made when
\* none is given (line 1198)
Fonts == {"QFont()", "other"}

----------------------------------------------------------------------------
(* QtANSIEscapeCodeHandler, lines 952-1015, and the set_code of its base    *)
(* class ANSIEscapeCodeHandler                                             *)

\* ANSI_COLORS[index][intensity] as a QColor
ANSI_COLORS(index, intensity) == <<"ansi", index, intensity, 0>>

handler_set_light_background_ClearsColors(h, state) ==
    IF state
    THEN [h EXCEPT !.default_foreground_color = 30,
                   !.default_background_color = 47,
                   !.foreground_color = None, !.background_color = None]
    ELSE [h EXCEPT !.default_foreground_color = 37,
                   !.default_background_color = 40,
                   !.foreground_color = None, !.background_color = None]

\* QtANSIEscapeCodeHandler.set_light_background, lines 958-964
handler_set_light_background(h, state) ==
    IF state
    THEN [h EXCEPT !.default_foreground_color = 30,
                   !.default_background_color = 47]
    ELSE [h EXCEPT !.default_foreground_color = 37,
                   !.default_background_color = 40]

\* QtANSIEscapeCodeHandler.set_base_format, lines 966-967
set_base_format(h, base_format) == [h EXCEPT !.base_format = base_format]

\* QtANSIEscapeCodeHandler.get_format, lines 969-970
get_format(h) == h.current_format

set_style_NormalBackground(h) ==
    LET cf == IF h.current_format = None THEN h.base_format
              ELSE h.current_format[1]
    IN  [h EXCEPT !.current_format = Some(
            [font |-> cf.font,
             foreground |->
                 IF h.foreground_color = None THEN h.base_format.foreground
                 ELSE ANSI_COLORS(h.foreground_color[1] - 30, h.intensity),
             background |->
                 IF h.background_color = None THEN h.base_format.background
                 ELSE ANSI_COLORS(h.background_color[1] - 40, 0),
             italic |-> IF h.italic = None THEN h.base_format.italic
                        ELSE h.italic[1],
             bold |-> IF h.bold = None THEN h.base_format.bold
                      ELSE h.bold[1],
             underline |-> IF h.underline = None THEN h.base_format.underline
                           ELSE h.underline[1]])]

set_style_KeepsColors(h) ==
    LET cf == IF h.current_format = None THEN h.base_format
              ELSE h.current_format[1]
    IN  [h EXCEPT !.current_format = Some(
            [font |-> cf.font,
             foreground |->
                 IF h.foreground_color = None THEN cf.foreground
                 ELSE ANSI_COLORS(h.foreground_color[1] - 30, h.intensity),
             background |->
                 IF h.background_color = None THEN cf.background
                 ELSE ANSI_COLORS(h.background_color[1] - 40, h.intensity),
             italic |-> IF h.italic = None THEN h.base_format.italic
                        ELSE h.italic[1],
             bold |-> IF h.bold = None THEN h.base_format.bold
                      ELSE h.bold[1],
             underline |-> IF h.underline = None THEN h.base_format.underline
                           ELSE h.underline[1]])]

\* QtANSIEscapeCodeHandler.set_style, lines 972-1015
set_style(h) ==
    LET cf == IF h.current_format = None THEN h.base_format
              ELSE h.current_format[1]
    IN  [h EXCEPT !.current_format = Some(
            [font |-> cf.font,
             foreground |->
                 IF h.foreground_color = None THEN h.base_format.foreground
                 ELSE ANSI_COLORS(h.foreground_color[1] - 30, h.intensity),
             background |->
                 IF h.background_color = None THEN h.base_format.background
                 ELSE ANSI_COLORS(h.background_color[1] - 40, h.intensity),
             italic |-> IF h.italic = None THEN h.base_format.italic
                        ELSE h.italic[1],
             bold |-> IF h.bold = None THEN h.base_format.bold
                      ELSE h.bold[1],
             underline |-> IF h.underline = None THEN h.base_format.underline
                           ELSE h.underline[1]])]

\* ANSIEscapeCodeHandler.reset
reset(h) ==
    [h EXCEPT !.foreground_color = None, !.background_color = None,
              !.bold = None, !.italic = None, !.underline = None]

\* ANSIEscapeCodeHandler.set_code: the attributes after one parameter, then
\* set_style()
set_code(h, code) ==
    set_style(
        IF code = 0 THEN reset(h)
        ELSE IF code = 1 THEN [h EXCEPT !.bold = Some(TRUE)]
        ELSE IF code = 3 THEN [h EXCEPT !.italic = Some(TRUE)]
        ELSE IF code = 4 THEN [h EXCEPT !.underline = Some(TRUE)]
        ELSE IF code = 22 THEN [h EXCEPT !.bold = Some(FALSE)]
        ELSE IF code = 23 THEN [h EXCEPT !.italic = Some(FALSE)]
        ELSE IF code = 24 THEN [h EXCEPT !.underline = Some(FALSE)]
        ELSE IF code >= 30 /\ code <= 37
        THEN [h EXCEPT !.foreground_color = Some(code), !.intensity = 0]
        ELSE IF code >= 90 /\ code <= 97
        THEN [h EXCEPT !.foreground_color = Some(code - 60), !.intensity = 1]
        ELSE IF code >= 40 /\ code <= 47
        THEN [h EXCEPT !.background_color = Some(code)]
        ELSE IF code >= 100 /\ code <= 107
        THEN [h EXCEPT !.background_color = Some(code - 60), !.intensity = 1]
        ELSE IF code = 39 THEN [h EXCEPT !.foreground_color = None]
        ELSE IF code = 49 THEN [h EXCEPT !.background_color = None]
        ELSE h)

\* ANSIEscapeCodeHandler.__init__ and QtANSIEscapeCodeHandler.__init__
\* (lines 953-956)
HandlerInit ==
    [intensity |-> 0, italic |-> None, bold |-> None, underline |-> None,
     foreground_color |-> None, background_color |-> None,
     default_foreground_color |-> 30, default_background_color |-> 47,
     base_format |-> None, current_format |-> None]

----------------------------------------------------------------------------
(* ConsoleBaseWidget.append_text_to_shell, lines 1136-1193 *)

\* COLOR_PATTERN = re.compile('\x01?\x1b\[(.*?)m\x02?'), line 1051.
\* CsiAt(t, i): ESC [ at index i (1-based) followed, with no line break
\* before it, by an "m"; CsiEnd is the index of the first such "m".
CsiAt(t, i) ==
    /\ i >= 1
    /\ i + 1 <= Len(t)
    /\ t[i] = ESC
    /\ t[i + 1] = "["
    /\ \E r \in (i + 2)..Len(t) :
           t[r] = "m" /\ \A k \in (i + 2)..(r - 1) : t[k] \notin {"m", LS}

CsiEnd(t, i) ==
    CHOOSE r \in (i + 2)..Len(t) :
        t[r] = "m" /\ \A k \in (i + 2)..(r - 1) : t[k] \notin {"m", LS}

\* A match of COLOR_PATTERN starts at index i
MatchAt(t, i) ==
    \/ CsiAt(t, i)
    \/ i <= Len(t) /\ t[i] = SOH /\ CsiAt(t, i + 1)

\* The next match of finditer at or after the 0-based offset last_end:
\* [start, end] as match.start(), match.end() and group as match.group(1)
HasMatch(t, last_end) == \E i \in (last_end + 1)..Len(t) : MatchAt(t, i)

NextMatch_NoTrailingMarker(t, last_end) ==
    LET i == CHOOSE j \in (last_end + 1)..Len(t) :
                 MatchAt(t, j) /\ \A k \in (last_end + 1)..(j - 1) :
                                      ~MatchAt(t, k)
        c == IF CsiAt(t, i) THEN i ELSE i + 1
        r == CsiEnd(t, c)
    IN  [start |-> i - 1, group |-> SubSeq(t, c + 2, r - 1), end |-> r]

NextMatch(t, last_end) ==
    LET i == CHOOSE j \in (last_end + 1)..Len(t) :
                 MatchAt(t, j) /\ \A k \in (last_end + 1)..(j - 1) :
                                      ~MatchAt(t, k)
        c == IF CsiAt(t, i) THEN i ELSE i + 1
        r == CsiEnd(t, c)
    IN  [start |-> i - 1,
         group |-> SubSeq(t, c + 2, r - 1),
         end   |-> IF r + 1 <= Len(t) /\ t[r + 1] = STX THEN r + 1 ELSE r]

Slice_FromStart(t, a, b) == SubSeq(t, 1, b)

\* text[a:b]
Slice(t, a, b) == SubSeq(t, a + 1, b)

\* for code in [...]: self.ansi_handler.set_code(code), lines 1179-1180
RECURSIVE set_codes(_, _)
set_codes(h, codes) ==
    IF codes = <<>> THEN h
    ELSE set_codes(set_code(h, Head(codes)), Tail(codes))

set_codes_RightToLeft(h, codes) ==
    set_codes(h, [i \in 1..Len(codes) |-> codes[Len(codes) + 1 - i]])

\* for code in ...: set_code(code), in the order of the list
apply_codes(h, codes) == set_codes(h, codes)

TailRun_OffByOne(t, last_end, format) ==
    [text |-> SliceFrom(t, last_end + 1), format |-> format]

\* line 1182: cursor.insertText(text[last_end:], self.default_style.format)
TailRun(t, last_end, format) ==
    [text |-> SliceFrom(t, last_end), format |-> format]

\* lines 1174-1182 from the offset last_end on: st = [handler, format,
\* inserted, raised] with format the value of self.default_style.format
RECURSIVE DecodeFrom(_, _, _)
DecodeFrom(st, t, last_end) ==
    IF ~HasMatch(t, last_end)
    THEN [st EXCEPT !.inserted = Append(@, TailRun(t, last_end, st.format))]
    ELSE LET m == NextMatch(t, last_end)
             ins == Append(st.inserted,
                           [text |-> Slice(t, last_end, m.start),
                            format |-> st.format])
             params == split(m.group, ";")
         IN  IF \E i \in 1..Len(params) : ~IsInt(params[i])
             THEN [st EXCEPT !.inserted = ins, !.raised = "ValueError"]
             ELSE LET h == apply_codes(st.handler,
                               [i \in 1..Len(params) |-> int(params[i])])
                  IN  DecodeFrom([st EXCEPT !.inserted = ins,
                                            !.handler = h,
                                            !.format = get_format(h)[1]],
                                 t, m.end)

\* lines 1148-1153: the text after its last form feed
RECURSIVE AfterFormFeeds(_)
AfterFormFeeds(t) ==
    IF \E i \in 1..Len(t) : t[i] = FF
    THEN AfterFormFeeds(SliceFrom(t, CHOOSE i \in 1..Len(t) :
                            t[i] = FF /\ \A k \in 1..(i - 1) : t[k] # FF))
    ELSE t

\* The texts given to append_text_to_shell: up to MaxPieces pieces
CSI(params) == <<ESC, "[">> \o params \o <<"m">>

Pieces == {<<"a">>, <<FF>>,
           CSI(<<"3", "1">>), CSI(<<"0", ";", "1">>), CSI(<<"1", "0", "1">>),
           CSI(<<"0">>),
           CSI(<<>>), CSI(<<";", "1">>), CSI(<<"1", ";", "?">>),
           <<SOH>> \o CSI(<<"3", "1">>) \o <<STX>>}

RECURSIVE concat(_)
concat(ps) == IF ps = <<>> THEN <<>> ELSE Head(ps) \o concat(Tail(ps))

ShellTexts ==
    UNION {{concat(ps) : ps \in [1..k -> Pieces]} : k \in 0..MaxPieces}

\* ConsoleBaseWidget.set_pythonshell_font, lines 1195-1203, as the new values
\* of the formats and of the handler
StyleFormats(font, light) ==
    [default |-> apply_style(default_style, font, light, TRUE),
     error |-> apply_style(error_style, font, light, FALSE),
     traceback_link |-> apply_style(traceback_link_style, font, light, FALSE),
     prompt |-> apply_style(prompt_style, font, light, FALSE)]

CInit ==
    /\ cpc = "idle"
    /\ stext = <<>>
    /\ error = FALSE
    /\ prompt = FALSE
    /\ light_background = TRUE
    /\ default_style_format = StyleFormats("QFont()", TRUE).default
    /\ error_style_format = StyleFormats("QFont()", TRUE).error
    /\ traceback_link_style_format =
           StyleFormats("QFont()", TRUE).traceback_link
    /\ prompt_style_format = StyleFormats("QFont()", TRUE).prompt
    /\ ansi_handler =
           set_base_format(HandlerInit, StyleFormats("QFont()", TRUE).default)
    /\ inserted = <<>>
    /\ cleared = FALSE
    /\ raised = "none"

\* ConsoleBaseWidget.set_pythonshell_font(font), lines 1195-1203
set_pythonshell_font(font) ==
    /\ cpc = "idle"
    /\ default_style_format' = StyleFormats(font, light_background).default
    /\ error_style_format' = StyleFormats(font, light_background).error
    /\ traceback_link_style_format' =
           StyleFormats(font, light_background).traceback_link
    /\ prompt_style_format' = StyleFormats(font, light_background).prompt
    /\ ansi_handler' =
           set_base_format(ansi_handler,
                           StyleFormats(font, light_background).default)
    /\ UNCHANGED <<cpc, stext, error, prompt, light_background, inserted,
                   cleared, raised>>
    /\ UNCHANGED rvars

\* ConsoleBaseWidget.set_light_background(state), lines 1088-1097, whose last
\* statement is set_pythonshell_font()
set_light_background(state) ==
    /\ cpc = "idle"
    /\ light_background' = state
    /\ default_style_format' = StyleFormats("QFont()", state).default
    /\ error_style_format' = StyleFormats("QFont()", state).error
    /\ traceback_link_style_format' =
           StyleFormats("QFont()", state).traceback_link
    /\ prompt_style_format' = StyleFormats("QFont()", state).prompt
    /\ ansi_handler' =
           set_base_format(handler_set_light_background(ansi_handler, state),
                           StyleFormats("QFont()", state).default)
    /\ UNCHANGED <<cpc, stext, error, prompt, inserted, cleared, raised>>
    /\ UNCHANGED rvars

\* The caller enters append_text_to_shell(text, error, prompt)
Call(t, e, p) ==
    /\ cpc = "idle"
    /\ cpc' = "called"
    /\ stext' = t
    /\ error' = e
    /\ prompt' = p
    /\ UNCHANGED <<ansi_handler, light_background, default_style_format,
                   error_style_format, traceback_link_style_format,
                   prompt_style_format, inserted, cleared, raised>>
    /\ UNCHANGED rvars

append_text_to_shell_AlwaysDecodes ==
    /\ cpc = "called"
    /\ cpc' = "returned"
    /\ cleared' = (\E i \in 1..Len(stext) : stext[i] = FF)
    /\ LET st == DecodeFrom([handler |-> ansi_handler,
                             format |-> default_style_format,
                             inserted |-> <<>>,
                             raised |-> "none"], AfterFormFeeds(stext), 0)
       IN  /\ inserted' = st.inserted
           /\ ansi_handler' = st.handler
           /\ default_style_format' = st.format
           /\ raised' = st.raised
    /\ UNCHANGED <<stext, error, prompt, light_background,
                   error_style_format, traceback_link_style_format,
                   prompt_style_format>>
    /\ UNCHANGED rvars

\* append_text_to_shell, lines 1146-1193.  The texts of the model hold no
\* line break and no "  File", so the loop of lines 1156-1166 inserts a
\* non-empty text in one piece with error_style.format.
append_text_to_shell ==
    /\ cpc = "called"
    /\ cpc' = "returned"
    /\ cleared' = (\E i \in 1..Len(stext) : stext[i] = FF)
    /\ LET t == AfterFormFeeds(stext)
       IN  IF error
           THEN /\ inserted' = IF t = <<>> THEN <<>>
                               ELSE <<[text |-> t,
                                       format |-> error_style_format]>>
                /\ UNCHANGED <<ansi_handler, default_style_format, raised>>
           ELSE IF prompt
           THEN /\ inserted' = <<[text |-> t, format |-> prompt_style_format]>>
                /\ UNCHANGED <<ansi_handler, default_style_format, raised>>
           ELSE LET st == DecodeFrom([handler |-> ansi_handler,
                                      format |-> default_style_format,
                                      inserted |-> <<>>,
                                      raised |-> "none"], t, 0)
                IN  /\ inserted' = st.inserted
                    /\ ansi_handler' = st.handler
                    /\ default_style_format' = st.format
                    /\ raised' = st.raised
    /\ UNCHANGED <<stext, error, prompt, light_background,
                   error_style_format, traceback_link_style_format,
                   prompt_style_format>>
    /\ UNCHANGED rvars

Return_ForgetsStyle ==
    /\ cpc = "returned"
    /\ cpc' = "idle"
    /\ stext' = <<>>
    /\ error' = FALSE
    /\ prompt' = FALSE
    /\ inserted' = <<>>
    /\ cleared' = FALSE
    /\ raised' = "none"
    /\ default_style_format' = ansi_handler.base_format
    /\ UNCHANGED <<ansi_handler, light_background,
                   error_style_format, traceback_link_style_format,
                   prompt_style_format>>
    /\ UNCHANGED rvars

\* The call is over; the next one starts from the state it left
Return ==
    /\ cpc = "returned"
    /\ cpc' = "idle"
    /\ stext' = <<>>
    /\ error' = FALSE
    /\ prompt' = FALSE
    /\ inserted' = <<>>
    /\ cleared' = FALSE
    /\ raised' = "none"
    /\ UNCHANGED <<ansi_handler, light_background, default_style_format,
                   error_style_format, traceback_link_style_format,
                   prompt_style_format>>
    /\ UNCHANGED rvars

\* Normal output is given every text of ShellTexts; an error message or a
\* prompt, which is not searched for escape sequences, a text of one piece.
CNext ==
    \/ /\ cpc = "idle"
       /\ \/ \E t \in ShellTexts : Call(t, FALSE, FALSE)
          \/ \E t \in Pieces, e \in BOOLEAN, p \in BOOLEAN :
                 (e \/ p) /\ Call(t, e, p)
    \/ append_text_to_shell
    \/ Return
    \/ \E state \in BOOLEAN : set_light_background(state)
    \/ \E font \in Fonts : set_pythonshell_font(font)

----------------------------------------------------------------------------
(* Specifications *)

Init == RInit /\ CInit

\* get_selection_as_executable_code alone
ReindentSpec == Init /\ [][RNext]_vars

\* The console widget alone
DecodeSpec == Init /\ [][CNext]_vars

\* Both
Next == RNext \/ CNext

Spec == Init /\ [][Next]_vars

----------------------------------------------------------------------------
(* Claims about get_selection_as_executable_code *)

\* A line that is blank or comment-only: its first non-whitespace character,
\* if any, is '#'
BlankOrComment(line) == lstrip(line) = <<>> \/ lstrip(line)[1] = "#"

AllBlankOrComment(t) ==
    \A i \in 1..Len(split(t, LS)) : BlankOrComment(split(t, LS)[i])

\* The words that open a compound statement, and the continuations each allows
OpeningWords == {<<"def">>, <<"for">>, <<"while">>, <<"with">>, <<"class">>,
                 <<"if">>, <<"try">>}

AllowedAfter(word) ==
    IF word = <<"if">> THEN {<<"elif">>, <<"else">>}
    ELSE IF word = <<"try">> THEN {<<"except">>, <<"finally">>}
    ELSE {}

\* Some zero-indentation line of the text t opens a compound statement
OpensBlockAtZero(t) ==
    \E i \in 1..Len(split(t, LS)) :
        /\ _indent(split(t, LS)[i]) = 0
        /\ varname_match(split(t, LS)[i]) \in OpeningWords

\* C1: on a non-empty text in which every line is blank or comment-only the
\* method returns an empty result and does not fault.
C1_CommentOnlyReturnsEmpty ==
    (input # <<>> /\ AllBlankOrComment(input) /\ Len(outs) = 0)
        => /\ rpc # "IndexError"
           /\ rpc = "done" => result = <<>>

\* C3 as stated: for x an output of the method (called with original indent
\* 0), reindent(reindent(x)) = reindent(x).  Here x = outs[1],
\* reindent(x) = outs[2] and reindent(reindent(x)) = result.
C3_Idempotent ==
    (rpc = "done" /\ Len(outs) = 2) => result = outs[2]

\* C3 as amended: for x an output of the method, reindent(reindent(x)) =
\* reindent(x) exactly when no zero-indentation line of reindent(x) opens a
\* compound statement; when one does, the second pass makes the text longer.
C3_IdempotentWithoutBlocks ==
    (rpc = "done" /\ Len(outs) = 2)
        => /\ ~OpensBlockAtZero(outs[2]) => result = outs[2]
           /\ OpensBlockAtZero(outs[2]) => Len(result) > Len(outs[2])

C3_Witness ==
    /\ rpc = "done"
    /\ Len(outs) = 2
    /\ Len(split(outs[2], LS)) > 1
    /\ ~OpensBlockAtZero(outs[2])
    /\ result = outs[2]

\* C6: while a compound statement opened at zero indentation is pending, the
\* allowed continuations are those of the word that opened it; at a
\* zero-indentation line whose leading word is not one of them, one line
\* separator is appended to the line just before it, no other line changes,
\* and pending is cleared (it is held afterwards only if that line itself
\* opens a compound statement); no other line of the scan adds a separator.
C6_BlockTermination ==
    /\ [](rpc = "scan" /\ maybe =>
            \E j \in 1..n :
                /\ _indent(lines[j]) = 0
                /\ varname_match(lines[j]) \in OpeningWords
                /\ nextexcept = AllowedAfter(varname_match(lines[j]))
                /\ \A k \in (j + 1)..n :
                       _indent(lines[k]) = 0 =>
                           varname_match(lines[k]) \in nextexcept)
    /\ [][(rpc = "scan" /\ n < Len(lines)) =>
            LET line == lines[n + 1]
                word == varname_match(line)
            IN  IF _indent(line) = 0 /\ maybe /\ word \notin nextexcept
                THEN /\ n >= 1
                     /\ Len(lines') = Len(lines)
                     /\ lines'[n] = lines[n] \o <<LS>>
                     /\ \A k \in 1..Len(lines) : k # n => lines'[k] = lines[k]
                     /\ maybe' = (word \in OpeningWords)
                ELSE lines' = lines]_vars

\* "if\n x\nx" gives "if\n x\n\nx"
C6_Witness ==
    /\ rpc = "done"
    /\ Len(outs) = 0
    /\ input = <<"if", LS, SP, "x", LS, "x">>
    /\ result = <<"if", LS, SP, "x", LS, LS, "x">>

\* C7: when pending is still true after the last line, the returned text is
\* the joined lines followed by one more separator after a blank last line,
\* by a separator and an empty line otherwise; when pending is false the
\* returned text is the joined lines.
C7_FinalTermination ==
    [][(rpc = "scan" /\ rpc' = "done") =>
          result' = join(LS, lines) \o
                    (IF ~maybe THEN <<>>
                     ELSE IF \A i \in 1..Len(lines[Len(lines)]) :
                                 IsSpace(lines[Len(lines)][i])
                     THEN <<LS>>
                     ELSE <<LS, LS>>)]_vars

\* "def\n x" gives "def\n x\n\n"
C7_Witness ==
    /\ rpc = "done"
    /\ Len(outs) = 0
    /\ maybe
    /\ input = <<"def", LS, SP, "x">>
    /\ result = <<"def", LS, SP, "x", LS, LS>>

\* C10: after the leading lines are dropped the first line is neither blank
\* nor comment-only, the lines dropped are all blank or comment-only and
\* the lines kept are all the lines from the first kept one on; so the first
\* line of a returned text is neither blank nor comment-only.
C10_LeadingDropped ==
    /\ (rpc = "scan" /\ n = 0) =>
           LET before == StripCommonIndent(text).lines
               k == Len(before) - Len(lines)
           IN  /\ k >= 0
               /\ lines = SubSeq(before, k + 1, Len(before))
               /\ \A i \in 1..k : BlankOrComment(before[i])
               /\ ~BlankOrComment(lines[1])
    /\ rpc = "done" => ~BlankOrComment(split(result, LS)[1])

\* " #\n x\n" gives "x\n"
C10_Witness ==
    /\ rpc = "done"
    /\ Len(outs) = 0
    /\ input = <<SP, "#", LS, SP, "x", LS>>
    /\ result = <<"x", LS>>

----------------------------------------------------------------------------
(* Claims about append_text_to_shell.  "decode" is the branch of lines     *)
(* 1173-1182, entered with error and prompt false; its input is the text   *)
(* that reaches it, AfterFormFeeds(stext).                                 *)

Decoding == ~error /\ ~prompt

\* The matches of COLOR_PATTERN in t from the offset last_end on
RECURSIVE Matches(_, _)
Matches(t, last_end) ==
    IF ~HasMatch(t, last_end) THEN <<>>
    ELSE LET m == NextMatch(t, last_end)
         IN  <<m>> \o Matches(t, m.end)

\* The parameter entries of all the escape sequences of t
EntriesOf(group) ==
    LET ps == split(group, ";") IN {ps[i] : i \in 1..Len(ps)}

Entries(t) ==
    LET ms == Matches(t, 0)
    IN  UNION {EntriesOf(ms[k].group) : k \in 1..Len(ms)}

IsNumber(p) == p # <<>> /\ \A i \in 1..Len(p) : p[i] \in Digits

\* t with every match of COLOR_PATTERN removed
RECURSIVE Literals(_, _)
Literals(t, last_end) ==
    IF ~HasMatch(t, last_end) THEN SliceFrom(t, last_end)
    ELSE LET m == NextMatch(t, last_end)
         IN  Slice(t, last_end, m.start) \o Literals(t, m.end)

\* The characters inserted by the call, in order
RECURSIVE InsertedText(_)
InsertedText(ins) ==
    IF ins = <<>> THEN <<>> ELSE Head(ins).text \o InsertedText(Tail(ins))

\* The decoder at the start of the call
AtCall ==
    [handler |-> ansi_handler, format |-> default_style_format,
     inserted |-> <<>>, raised |-> "none"]

\* C2: decode does not raise on a sequence with a non-numeric parameter
\* (here: on a text none of whose sequences has an absent entry), and every
\* literal character of the text is still emitted.
C2_MalformedIgnored ==
    (cpc = "returned" /\ Decoding
        /\ <<>> \notin Entries(AfterFormFeeds(stext)))
        => /\ raised = "none"
           /\ InsertedText(inserted) = Literals(AfterFormFeeds(stext), 0)

\* C4: on a text with no escape sequence decode inserts exactly one run, the
\* text in the style in effect at the call, and changes nothing of the
\* decoder.
C4_PlainTextOneRun ==
    [][(cpc = "called" /\ Decoding /\ ~HasMatch(AfterFormFeeds(stext), 0))
          => /\ cpc' = "returned"
             /\ inserted' = <<[text |-> AfterFormFeeds(stext),
                               format |-> default_style_format]>>
             /\ raised' = "none"
             /\ ansi_handler' = ansi_handler
             /\ default_style_format' = default_style_format]_vars

C4_Witness ==
    /\ cpc = "returned"
    /\ Decoding
    /\ stext = <<"a", "a">>
    /\ inserted = <<[text |-> <<"a", "a">>, format |-> default_style_format]>>
    /\ ansi_handler.foreground_color = Some(31)

\* The handler after the parameters of the first k matches of ms have been
\* applied one by one, the parameters of a sequence from left to right
RECURSIVE HandlerAfter(_, _, _)
HandlerAfter(h, ms, k) ==
    IF k = 0 THEN h
    ELSE LET ps == split(ms[k].group, ";")
         IN  set_codes(HandlerAfter(h, ms, k - 1),
                       [i \in 1..Len(ps) |-> int(ps[i])])

\* C5: in a call on a text whose sequences are all well formed, the run
\* before the k-th sequence is the literal text before it, in the style that
\* was in effect before the sequence (the style at the call for the first,
\* else the style resolved after the sequences before it); the run after
\* the last sequence has the style resolved after all of them.
C5_RunThenCodes ==
    [][(cpc = "called" /\ Decoding
           /\ \A p \in Entries(AfterFormFeeds(stext)) : IsNumber(p))
          => LET t  == AfterFormFeeds(stext)
                 ms == Matches(t, 0)
                 styleBefore(k) ==
                     IF k = 1 THEN default_style_format
                     ELSE HandlerAfter(ansi_handler, ms, k - 1).current_format[1]
                 startOf(k) == IF k = 1 THEN 0 ELSE ms[k - 1].end
             IN  /\ Len(inserted') = Len(ms) + 1
                 /\ \A k \in 1..Len(ms) :
                        inserted'[k] =
                            [text |-> Slice(t, startOf(k), ms[k].start),
                             format |-> styleBefore(k)]
                 /\ inserted'[Len(ms) + 1] =
                        [text |-> SliceFrom(t, startOf(Len(ms) + 1)),
                         format |-> styleBefore(Len(ms) + 1)]
                 /\ ansi_handler' = HandlerAfter(ansi_handler, ms, Len(ms))]_vars

\* "a", ESC[0;1m, "a" while the foreground is 31: the first "a" has the
\* foreground color and is not bold, the second is bold with the base
\* foreground
C5_Witness ==
    /\ cpc = "returned"
    /\ Decoding
    /\ stext = <<"a">> \o CSI(<<"0", ";", "1">>) \o <<"a">>
    /\ Len(inserted) = 2
    /\ inserted[1].format.foreground = ANSI_COLORS(1, 0)
    /\ ~inserted[1].format.bold
    /\ inserted[2].format.foreground = ansi_handler.base_format.foreground
    /\ inserted[2].format.bold

\* C8: ESC[m is decoded as ESC[0m and ESC[;1m as ESC[0;1m, without raising.
C8_AbsentEntryIsZero ==
    [][\A pair \in {<<CSI(<<>>), CSI(<<"0">>)>>,
                    <<CSI(<<";", "1">>), CSI(<<"0", ";", "1">>)>>} :
          (cpc = "called" /\ Decoding /\ stext = pair[1])
              => /\ raised' = "none"
                 /\ ansi_handler' = DecodeFrom(AtCall, pair[2], 0).handler
                 /\ default_style_format' =
                        DecodeFrom(AtCall, pair[2], 0).format]_vars

\* The style the attributes of the handler resolve to against its base
\* format
Resolved(h) ==
    [font |-> h.base_format.font,
     foreground |-> IF h.foreground_color = None THEN h.base_format.foreground
                    ELSE ANSI_COLORS(h.foreground_color[1] - 30, h.intensity),
     background |-> IF h.background_color = None THEN h.base_format.background
                    ELSE ANSI_COLORS(h.background_color[1] - 40, h.intensity),
     italic |-> IF h.italic = None THEN h.base_format.italic ELSE h.italic[1],
     bold |-> IF h.bold = None THEN h.base_format.bold ELSE h.bold[1],
     underline |-> IF h.underline = None THEN h.base_format.underline
                   ELSE h.underline[1]]

\* C9: at the start and at the end of every decode call the style that runs
\* are inserted with is the resolution of the handler's attributes against
\* the current base format.
C9_StyleNeverStale ==
    (cpc \in {"called", "returned"} /\ Decoding)
        => default_style_format = Resolved(ansi_handler)

----------------------------------------------------------------------------
(* Further claims about get_selection_as_executable_code *)

\* The indices of the non-blank lines of a list of lines
NonBlank(ls) == {i \in 1..Len(ls) : strip(ls[i]) # <<>>}

\* C11: on a text with a non-blank line, the step that removes the common
\* indentation sets min_indent to the least indentation of the non-blank
\* lines (a blank line of smaller indentation does not lower it), removes
\* exactly min_indent leading columns from every non-blank line, all of them
\* whitespace, keeps every blank line blank, and leaves some non-blank line
\* at column zero.
C11_MinIndentOverNonBlank ==
    [][(rpc = "indent" /\ NonBlank(split(text, LS)) # {}) =>
          LET before == split(text, LS)
              nb == NonBlank(before)
          IN  /\ \A i \in nb : _indent(before[i]) >= min_indent'
              /\ \E i \in nb : _indent(before[i]) = min_indent'
              /\ Len(lines') = Len(before)
              /\ \A i \in nb :
                     /\ Len(lines'[i]) = Len(before[i]) - min_indent'
                     /\ lstrip(lines'[i]) = lstrip(before[i])
                     /\ Spaces(min_indent') \o lines'[i] = before[i]
              /\ \A i \in 1..Len(before) : i \notin nb => strip(lines'[i]) = <<>>
              /\ \E i \in nb : _indent(lines'[i]) = 0]_vars

\* " x\n\n x": the blank middle line has indentation 0, min_indent is 1
C11_Witness ==
    /\ rpc = "drop"
    /\ text = <<SP, "x", LS, LS, SP, "x">>
    /\ min_indent = 1
    /\ lines = << <<"x">>, <<>>, <<"x">> >>

\* C12: the padding step, on a text of more than one line, puts
\* max(0, original_indent - indent(first line)) spaces before the first line
\* and changes no other line; on a text of one line it changes nothing.
C12_FirstLinePadding ==
    [][rpc = "fix" =>
          LET before == split(text, LS)
              after  == split(text', LS)
              d      == original_indent - _indent(before[1])
              pad    == IF d > 0 THEN d ELSE 0
          IN  IF Len(before) > 1
              THEN /\ Len(after) = Len(before)
                   /\ after[1] = [i \in 1..pad |-> SP] \o before[1]
                   /\ \A i \in 2..Len(before) : after[i] = before[i]
              ELSE text' = text]_vars

\* "x\n x" selected from a line of indentation 1 becomes " x\n x"
C12_Witness ==
    /\ rpc = "indent"
    /\ Len(outs) = 0
    /\ original_indent = 1
    /\ input = <<"x", LS, SP, "x">>
    /\ text = <<SP, "x", LS, SP, "x">>

\* C13: a call on the empty text returns None at once: it goes from the
\* call to the return with no line split, indentation, drop or scan step, it
\* makes no string, and it does not raise; a call on a non-empty text does
\* not return there.
C13_EmptyReturnsNothing ==
    [][/\ rpc = "idle" =>
              /\ (rpc' = "none") = (text' = <<>>)
              /\ rpc' # "IndexError"
              /\ UNCHANGED <<lines, min_indent, n, maybe, nextexcept, result>>
       /\ (rpc = "none" /\ Len(outs) = 0) =>
              /\ text = <<>>
              /\ UNCHANGED rvars]_vars

C13_Witness ==
    /\ rpc = "none"
    /\ Len(outs) = 0
    /\ input = <<>>
    /\ lines = <<>>
    /\ result = <<>>
    /\ original_indent = 1

\* The text the current call was made on
CallText == IF Len(outs) = 0 THEN input ELSE outs[Len(outs)]

\* The number of lines at the head of a list that are blank or comment-only
RECURSIVE LeadingJunkCount(_)
LeadingJunkCount(ls) ==
    IF ls = <<>> \/ ~BlankOrComment(ls[1]) THEN 0
    ELSE 1 + LeadingJunkCount(Tail(ls))

\* C14 as stated: the returned text has at least as many lines as the text
\* the call was made on.
C14_LineCountNotLess ==
    rpc = "done" => Len(split(result, LS)) >= Len(split(CallText, LS))

\* C14 as amended: the returned text has at least as many lines as the text
\* the call was made on less its leading blank or comment-only lines, which
\* are dropped; so at least as many when its first line is neither.
C14_LineCountLessDropped ==
    rpc = "done" =>
        LET before == split(CallText, LS)
        IN  /\ Len(split(result, LS)) >=
                   Len(before) - LeadingJunkCount(before)
            /\ ~BlankOrComment(before[1]) =>
                   Len(split(result, LS)) >= Len(before)

\* " #\n x" (two lines) gives "x" (one line)
C14_Witness ==
    /\ rpc = "done"
    /\ Len(outs) = 0
    /\ input = <<SP, "#", LS, SP, "x">>
    /\ result = <<"x">>
    /\ Len(split(result, LS)) = Len(split(input, LS)) - 1

\* The lines ls are an if or try statement at column zero, its indented
\* lines and its continuations at column zero, then one line at column zero
\* that is the plain statement "x"
ChainThenStatement(ls) ==
    /\ Len(ls) >= 2
    /\ _indent(ls[1]) = 0
    /\ varname_match(ls[1]) \in {<<"if">>, <<"try">>}
    /\ \A i \in 2..(Len(ls) - 1) :
           \/ strip(ls[i]) # <<>> /\ _indent(ls[i]) > 0
           \/ /\ _indent(ls[i]) = 0
              /\ varname_match(ls[i]) \in AllowedAfter(varname_match(ls[1]))
    /\ ls[Len(ls)] = <<"x">>

\* C20 (get_selection_as_executable_code): at a zero-indentation line whose
\* leading word is an allowed continuation of the pending statement, the scan
\* changes no line, and pending and the set of allowed continuations stay
\* as they are; so for an if or try statement with its continuations,
\* followed by a plain statement at column zero, the returned text is the
\* text with one separator added, at the end of the line before that
\* statement.
C20_ContinuationKeepsPending ==
    /\ [][(rpc = "scan" /\ n < Len(lines) /\ maybe
              /\ _indent(lines[n + 1]) = 0
              /\ varname_match(lines[n + 1]) \in nextexcept) =>
             /\ lines' = lines
             /\ maybe'
             /\ nextexcept' = nextexcept
             /\ nextexcept # {}]_vars
    /\ [](rpc = "done" /\ original_indent = 0
              /\ ChainThenStatement(split(CallText, LS)) =>
             LET ls == split(CallText, LS)
             IN  result =
                     join(LS, [ls EXCEPT ![Len(ls) - 1] = @ \o <<LS>>]))

\* "if\nelse\nx" gives "if\nelse\n\nx"
C20_Witness ==
    /\ rpc = "done"
    /\ Len(outs) = 0
    /\ original_indent = 0
    /\ input = <<"if", LS, "else", LS, "x">>
    /\ result = <<"if", LS, "else", LS, LS, "x">>

\* C21: in the scan, a line whose indentation is not zero changes no line
\* (no separator is added), leaves pending as it is, set or not, and leaves
\* the set of allowed continuations as it is, whatever word follows its
\* indentation.
C21_IndentedLineIgnored ==
    [][(rpc = "scan" /\ n < Len(lines) /\ _indent(lines[n + 1]) # 0) =>
          /\ lines' = lines
          /\ maybe' = maybe
          /\ nextexcept' = nextexcept
          /\ n' = n + 1
          /\ rpc' = "scan"]_vars

\* "if\n try" after both lines are scanned: the indented try has left the
\* pending if and its continuations as they were
C21_Witness ==
    /\ rpc = "scan"
    /\ Len(outs) = 0
    /\ n = 2
    /\ lines = << <<"if">>, <<SP, "try">> >>
    /\ maybe
    /\ nextexcept = {<<"elif">>, <<"else">>}

\* The indentation of the nearest non-blank line below line i of ls, zero
\* when there is none
IndentBelow(ls, i) ==
    IF \E j \in (i + 1)..Len(ls) : strip(ls[j]) # <<>>
    THEN _indent(ls[CHOOSE j \in (i + 1)..Len(ls) :
                        /\ strip(ls[j]) # <<>>
                        /\ \A k \in (i + 1)..(j - 1) : strip(ls[k]) = <<>>])
    ELSE 0

\* C22: the step that removes the common indentation makes of every blank
\* line the spaces of the indentation of the nearest non-blank line below it
\* (none when there is no such line), less the common indentation; so in
\* the scan a blank line above a line that is still indented is not at
\* column zero: it changes no line and leaves pending as it is; and
\* "def\n x\n\n x\n" gives "def\n x\n \n x\n\n", where the one separator
\* added is after the last indented line.
C22_BlankLineInherits ==
    /\ [][rpc = "indent" =>
             LET before == split(text, LS)
             IN  \A i \in 1..Len(before) :
                     strip(before[i]) = <<>> =>
                         LET d == IndentBelow(before, i) - min_indent'
                         IN  lines'[i] = [k \in 1..(IF d > 0 THEN d ELSE 0)
                                              |-> SP]]_vars
    /\ [][(rpc = "scan" /\ n < Len(lines)
              /\ strip(lines[n + 1]) = <<>>
              /\ IndentBelow(lines, n + 1) > 0) =>
             /\ _indent(lines[n + 1]) = IndentBelow(lines, n + 1)
             /\ lines' = lines
             /\ maybe' = maybe
             /\ nextexcept' = nextexcept]_vars
    /\ [](rpc = "done" /\ Len(outs) = 0 /\ original_indent = 0
              /\ input = <<"def", LS, SP, "x", LS, LS, SP, "x", LS>> =>
             result = <<"def", LS, SP, "x", LS, SP, LS, SP, "x", LS, LS>>)

C22_Witness ==
    /\ rpc = "done"
    /\ Len(outs) = 0
    /\ original_indent = 0
    /\ input = <<"def", LS, SP, "x", LS, LS, SP, "x", LS>>
    /\ lines = << <<"def">>, <<SP, "x">>, <<SP>>, <<SP, "x", LS>>, <<>> >>
    /\ result = <<"def", LS, SP, "x", LS, SP, LS, SP, "x", LS, LS>>

----------------------------------------------------------------------------
(* Further claims about the handler and append_text_to_shell *)

\* C15: set_light_background(state) leaves the default codes of the handler
\* at 30/47 when state is true and at 37/40 when it is false, and leaves
\* foreground_color, background_color, intensity, bold, italic, underline
\* and the current format as they were; so a color that is set resolves to
\* the same color before and after the call.
C15_LightBackgroundFrame ==
    [][\A state \in BOOLEAN :
          set_light_background(state) =>
              /\ ansi_handler'.default_foreground_color =
                     (IF state THEN 30 ELSE 37)
              /\ ansi_handler'.default_background_color =
                     (IF state THEN 47 ELSE 40)
              /\ ansi_handler'.foreground_color = ansi_handler.foreground_color
              /\ ansi_handler'.background_color = ansi_handler.background_color
              /\ ansi_handler'.intensity = ansi_handler.intensity
              /\ ansi_handler'.bold = ansi_handler.bold
              /\ ansi_handler'.italic = ansi_handler.italic
              /\ ansi_handler'.underline = ansi_handler.underline
              /\ ansi_handler'.current_format = ansi_handler.current_format
              /\ ansi_handler.foreground_color # None =>
                     set_style(ansi_handler').current_format[1].foreground =
                         set_style(ansi_handler).current_format[1].foreground
              /\ ansi_handler.background_color # None =>
                     set_style(ansi_handler').current_format[1].background =
                         set_style(ansi_handler).current_format[1].background]_vars

\* After ESC[31m and set_light_background(False): the defaults are 37/40 and
\* the foreground is still 31
C15_Witness ==
    /\ cpc = "idle"
    /\ ~light_background
    /\ ansi_handler.default_foreground_color = 37
    /\ ansi_handler.default_background_color = 40
    /\ ansi_handler.foreground_color = Some(31)
    /\ ansi_handler.current_format[1].foreground = ANSI_COLORS(1, 0)

\* The first escape sequence of the text of the call has only numbers as
\* parameters, so the call applies at least one parameter
FirstSequenceApplied ==
    LET t == AfterFormFeeds(stext)
    IN  /\ HasMatch(t, 0)
        /\ \A p \in EntriesOf(NextMatch(t, 0).group) : IsNumber(p)

\* C16: after a call that applied a parameter, the current format of the
\* handler has: as foreground the entry [foreground_color - 30][intensity]
\* of the color table when foreground_color is set and the foreground of the
\* base format otherwise; as background the entry
\* [background_color - 40][intensity] when background_color is set and the
\* background of the base format otherwise, with the same intensity in both;
\* as bold, italic and underline the value set, or that of the base format
\* when none is set.
C16_StyleResolution ==
    [][(cpc = "called" /\ Decoding /\ FirstSequenceApplied) =>
          LET h    == ansi_handler'
              cf   == h.current_format[1]
              base == h.base_format
          IN  /\ h.intensity \in {0, 1}
              /\ cf.foreground =
                     (IF h.foreground_color = None THEN base.foreground
                      ELSE <<"ansi", h.foreground_color[1] - 30,
                             h.intensity, 0>>)
              /\ cf.background =
                     (IF h.background_color = None THEN base.background
                      ELSE <<"ansi", h.background_color[1] - 40,
                             h.intensity, 0>>)
              /\ h.foreground_color # None =>
                     h.foreground_color[1] - 30 \in 0..7
              /\ h.background_color # None =>
                     h.background_color[1] - 40 \in 0..7
              /\ cf.bold = (IF h.bold = None THEN base.bold ELSE h.bold[1])
              /\ cf.italic =
                     (IF h.italic = None THEN base.italic ELSE h.italic[1])
              /\ cf.underline =
                     (IF h.underline = None THEN base.underline
                      ELSE h.underline[1])]_vars

\* After ESC[31m ESC[101m the foreground 31 and the background 41 are both
\* looked up with intensity 1
C16_Witness ==
    /\ cpc = "returned"
    /\ Decoding
    /\ stext = CSI(<<"3", "1">>) \o CSI(<<"1", "0", "1">>)
    /\ ansi_handler.intensity = 1
    /\ ansi_handler.bold = None
    /\ ansi_handler.current_format[1].foreground = ANSI_COLORS(1, 1)
    /\ ansi_handler.current_format[1].background = ANSI_COLORS(1, 1)
    /\ ansi_handler.current_format[1].bold = ansi_handler.base_format.bold

\* t with every match of COLOR_PATTERN replaced by ESC [ parameters m, that
\* is without the \x01 and \x02 that the match took in
RECURSIVE Unmarked(_, _)
Unmarked(t, last_end) ==
    IF ~HasMatch(t, last_end) THEN SliceFrom(t, last_end)
    ELSE LET m == NextMatch(t, last_end)
         IN  Slice(t, last_end, m.start) \o CSI(m.group)
                 \o Unmarked(t, m.end)

HasMarker(t) == \E i \in 1..Len(t) : t[i] \in {SOH, STX}

\* C17: a call on a text whose \x01 and \x02 stand just before and just
\* after escape sequences inserts the same runs in the same styles, leaves
\* the same handler and ends the same way as a call on the text without
\* them, and no run it inserts holds a \x01 or a \x02.
C17_MarkersConsumed ==
    [][(cpc = "called" /\ Decoding) =>
          LET t == AfterFormFeeds(stext)
              plain == DecodeFrom(AtCall, Unmarked(t, 0), 0)
          IN  /\ ~HasMarker(Unmarked(t, 0))
              /\ inserted' = plain.inserted
              /\ ansi_handler' = plain.handler
              /\ default_style_format' = plain.format
              /\ raised' = plain.raised
              /\ \A k \in 1..Len(inserted') : ~HasMarker(inserted'[k].text)]_vars

\* "a", \x01 ESC[31m \x02, "a": two runs "a", the second with foreground 31
C17_Witness ==
    /\ cpc = "returned"
    /\ Decoding
    /\ stext = <<"a", SOH>> \o CSI(<<"3", "1">>) \o <<STX, "a">>
    /\ raised = "none"
    /\ Len(inserted) = 2
    /\ inserted[1].text = <<"a">>
    /\ inserted[2].text = <<"a">>
    /\ inserted[2].format.foreground = ANSI_COLORS(1, 0)
    /\ inserted[1].format.foreground # ANSI_COLORS(1, 0)

\* The attributes of the handler h are all unset and its current format has
\* the foreground, background, bold, italic and underline of its base format
IsReset(h) ==
    /\ h.foreground_color = None
    /\ h.background_color = None
    /\ h.bold = None
    /\ h.italic = None
    /\ h.underline = None
    /\ h.current_format # None
    /\ h.current_format[1].foreground = h.base_format.foreground
    /\ h.current_format[1].background = h.base_format.background
    /\ h.current_format[1].bold = h.base_format.bold
    /\ h.current_format[1].italic = h.base_format.italic
    /\ h.current_format[1].underline = h.base_format.underline

\* The last parameter of the last escape sequence of the text of the call is
\* 0, and every parameter of the text is a number
EndsWithReset ==
    LET t  == AfterFormFeeds(stext)
        ms == Matches(t, 0)
    IN  /\ ms # <<>>
        /\ \A p \in Entries(t) : IsNumber(p)
        /\ LET ps == split(ms[Len(ms)].group, ";")
           IN  int(ps[Len(ps)]) = 0

\* C18: in every state the handler can be in between calls, applying the
\* parameter 0 leaves foreground, background, bold, italic and underline
\* unset and the current format with the values of the base format, and
\* applying 0 again changes nothing; a call whose last parameter is 0 leaves
\* the handler so, and the style of the text that follows is that of the
\* base format.
C18_ResetLaw ==
    /\ [](cpc = "idle" =>
            /\ IsReset(set_code(ansi_handler, 0))
            /\ set_code(set_code(ansi_handler, 0), 0) =
                   set_code(ansi_handler, 0))
    /\ [][(cpc = "called" /\ Decoding /\ EndsWithReset) =>
            /\ IsReset(ansi_handler')
            /\ default_style_format' = ansi_handler'.current_format[1]]_vars

\* ESC[31m ESC[0m "a" from a handler that was bold: "a" is inserted with the
\* foreground of the base format and not bold
C18_Witness ==
    /\ cpc = "returned"
    /\ Decoding
    /\ stext = CSI(<<"3", "1">>) \o CSI(<<"0">>) \o <<"a">>
    /\ IsReset(ansi_handler)
    /\ Len(inserted) = 3
    /\ inserted[1].format.bold
    /\ inserted[2].format.foreground = ANSI_COLORS(1, 0)
    /\ inserted[3].format.foreground = ansi_handler.base_format.foreground
    /\ ~inserted[3].format.bold

\* The characters of a list of runs, each with the style of its run
RECURSIVE StyledChars(_)
StyledChars(ins) ==
    IF ins = <<>> THEN <<>>
    ELSE [i \in 1..Len(Head(ins).text) |->
              <<Head(ins).text[i], Head(ins).format>>]
             \o StyledChars(Tail(ins))

\* The offsets of t that are not inside a match of COLOR_PATTERN
CutPoints(t) ==
    LET ms == Matches(t, 0)
    IN  {c \in 0..Len(t) :
            \A k \in 1..Len(ms) : ~(ms[k].start < c /\ c < ms[k].end)}

\* C19: the handler and the style that runs are inserted with are left as
\* they are from the return of a call to the entry of the next; and a call
\* on a text whose sequences are all well formed inserts, character by
\* character, the same text in the same styles, and leaves the same handler
\* and style, as a call on the text up to any offset outside an escape
\* sequence followed by a call on the rest; the first run of the second of
\* these has the style the first left, which is the current format of the
\* handler when the first held an escape sequence.
C19_StatePersists ==
    [][/\ (cpc = "returned" \/ (cpc = "idle" /\ cpc' = "called")) =>
              UNCHANGED <<ansi_handler, default_style_format>>
       /\ (cpc = "called" /\ Decoding
              /\ \A p \in Entries(AfterFormFeeds(stext)) : IsNumber(p)) =>
              LET t == AfterFormFeeds(stext)
              IN  \A c \in CutPoints(t) :
                      LET first  == DecodeFrom(AtCall, Slice(t, 0, c), 0)
                          second == DecodeFrom(
                                        [handler |-> first.handler,
                                         format |-> first.format,
                                         inserted |-> <<>>,
                                         raised |-> "none"],
                                        SliceFrom(t, c), 0)
                      IN  /\ StyledChars(inserted') =
                                 StyledChars(first.inserted)
                                     \o StyledChars(second.inserted)
                          /\ ansi_handler' = second.handler
                          /\ default_style_format' = second.format
                          /\ second.inserted[1].format = first.format
                          /\ HasMatch(Slice(t, 0, c), 0) =>
                                 first.format =
                                     first.handler.current_format[1]]_vars

\* A call on "a" after calls that left the handler bold with foreground 31:
\* the run has that style
C19_Witness ==
    /\ cpc = "returned"
    /\ Decoding
    /\ stext = <<"a">>
    /\ ansi_handler.foreground_color = Some(31)
    /\ ansi_handler.bold = Some(TRUE)
    /\ inserted = <<[text |-> <<"a">>,
                     format |-> ansi_handler.current_format[1]]>>
    /\ inserted[1].format.foreground = ANSI_COLORS(1, 0)
    /\ inserted[1].format.bold

\* The characters of t from the index i on that are inside no match of ms,
\* in their order
RECURSIVE OutsideMatches(_, _, _)
OutsideMatches(t, ms, i) ==
    IF i > Len(t) THEN <<>>
    ELSE (IF \E k \in 1..Len(ms) : ms[k].start < i /\ i <= ms[k].end
          THEN <<>> ELSE <<t[i]>>) \o OutsideMatches(t, ms, i + 1)

\* C23: a call on a text whose sequences are all well formed does not raise,
\* and the texts of the runs it inserts, put end to end in the order of
\* insertion, are the characters of the text that are inside no match of
\* COLOR_PATTERN (a match takes in the \x01 before and the \x02 after the
\* sequence), each once and in the order of the text.
C23_LiteralsPreserved ==
    [][(cpc = "called" /\ Decoding
           /\ \A p \in Entries(AfterFormFeeds(stext)) : IsNumber(p)) =>
          LET t  == AfterFormFeeds(stext)
              ms == Matches(t, 0)
          IN  /\ raised' = "none"
              /\ Len(inserted') = Len(ms) + 1
              /\ InsertedText(inserted') = OutsideMatches(t, ms, 1)]_vars

\* ESC[0;1m "a" \x01 ESC[31m \x02: the runs "", "a" and ""
C23_Witness ==
    /\ cpc = "returned"
    /\ Decoding
    /\ stext = CSI(<<"0", ";", "1">>) \o <<"a", SOH>>
                   \o CSI(<<"3", "1">>) \o <<STX>>
    /\ raised = "none"
    /\ Len(inserted) = 3
    /\ inserted[1].text = <<>>
    /\ InsertedText(inserted) = <<"a">>

\* C24: a call with error or prompt true inserts the text as it is, escape
\* sequences included, in the style of error messages (when error is true)
\* or of prompts, does not raise, and leaves the handler and the format of
\* the default style as they were; they stay so until the next call is
\* entered, so a normal-output call that follows starts from the style it
\* would have started from without the error or prompt call.
C24_ErrorPromptNotDecoded ==
    [][/\ (cpc = "called" /\ (error \/ prompt)) =>
              /\ ansi_handler' = ansi_handler
              /\ default_style_format' = default_style_format
              /\ raised' = "none"
              /\ InsertedText(inserted') = AfterFormFeeds(stext)
              /\ \A k \in 1..Len(inserted') :
                     inserted'[k].format =
                         (IF error THEN error_style_format
                          ELSE prompt_style_format)
       /\ (cpc = "returned" /\ (error \/ prompt)) =>
              /\ cpc' = "idle"
              /\ ansi_handler' = ansi_handler
              /\ default_style_format' = default_style_format]_vars

\* An error call on ESC[31m while the handler is bold with no foreground:
\* the sequence is inserted as text and the handler has no foreground
C24_Witness ==
    /\ cpc = "returned"
    /\ error
    /\ stext = CSI(<<"3", "1">>)
    /\ inserted = <<[text |-> CSI(<<"3", "1">>), format |-> error_style_format]>>
    /\ ansi_handler.foreground_color = None
    /\ ansi_handler.bold = Some(TRUE)
    /\ default_style_format.bold

=============================================================================
